---- MODULE Spec2Model ----
(***************************************************************************)
(* A model of the S-expression evaluator of src/src/main.rs: the cell      *)
(* arena with its free list, the symbol table, the lexer, the recursive    *)
(* descent parser, the evaluator and the session loop of main.             *)
(*                                                                         *)
(* A Rust panic ends the process.  Operators that can panic return a       *)
(* state whose field panic holds the panic message; "none" means          *)
(* the process is still running.                                           *)
(***************************************************************************)
EXTENDS Integers, Sequences, FiniteSets, TLC

VARIABLES cells, free_index, symbols, buf, nesting, idx, exp, err, pc,
          panic, overflow_checks, cycles, lines, before, hist

vars == <<cells, free_index, symbols, buf, nesting, idx, exp, err, pc,
          panic, overflow_checks, cycles, lines, before, hist>>

(***************************************************************************)
(* Cells and the arena                                                     *)
(***************************************************************************)
NIL_INDEX == 0

\* main: let mut cells = [Cell::empty(); 64]
Capacity == 64

\* enum CellType; the payload n is the number, the symbol index or the head
Number(n) == [tag |-> "Number", n |-> n]
Symbol(s) == [tag |-> "Symbol", n |-> s]
Cons(h) == [tag |-> "Cons", n |-> h]
Free == [tag |-> "Free", n |-> 0]

Cell_empty == [val |-> Free, tail |-> NIL_INDEX]

Cell_new(val, tail) == [val |-> val, tail |-> tail]

\* init_storage followed by CellStorage::new, on a buffer of Cell::empty()
init_storage ==
    [cells |-> [i \in 0 .. Capacity - 1 |->
                  IF i >= 1 /\ i < Capacity - 1
                  THEN [Cell_empty EXCEPT !.tail = i + 1]
                  ELSE Cell_empty],
     free_index |-> NIL_INDEX + 1,
     panic |-> "none"]

\* alloc_cell without the reset of the tail of the cell handed out
alloc_cell_linked(st, val) ==
    IF st.panic # "none" THEN [st |-> st, idx |-> NIL_INDEX]
    ELSE IF st.free_index = NIL_INDEX
    THEN [st |-> [st EXCEPT !.panic = "Exhausted cell storage!"],
          idx |-> NIL_INDEX]
    ELSE LET i == st.free_index IN
         [st |-> [st EXCEPT !.free_index = st.cells[i].tail,
                            !.cells[i].val = val],
          idx |-> i]

\* CellStorage::alloc_cell: the new storage and the index handed out
alloc_cell(st, val) ==
    IF st.panic # "none" THEN [st |-> st, idx |-> NIL_INDEX]
    ELSE IF st.free_index = NIL_INDEX
    THEN [st |-> [st EXCEPT !.panic = "Exhausted cell storage!"],
          idx |-> NIL_INDEX]
    ELSE LET i == st.free_index IN
         [st |-> [st EXCEPT !.free_index = st.cells[i].tail,
                            !.cells[i] = Cell_new(val, NIL_INDEX)],
          idx |-> i]

\* the end of the live arms of free_cell without the link to the old head
relink_unlinked(st, i) ==
    [st EXCEPT !.cells[i].val = Free,
               !.free_index = i]

\* the two assignments that end both live arms of free_cell
relink(st, i) ==
    [st EXCEPT !.cells[i] = Cell_new(Free, st.free_index),
               !.free_index = i]

RECURSIVE free_cell(_, _)
\* free_cell that ignores the nil index only, and takes every other Free cell
\* through the arm of Number and Symbol
free_cell_nil_only(st, i) ==
    LET v == st.cells[i].val IN
    IF i = NIL_INDEX THEN st
    ELSE IF v.tag \in {"Number", "Symbol", "Free"} THEN relink(st, i)
    ELSE LET s1 == free_cell(st, v.n)
             tail == s1.cells[i].tail
             s2 == free_cell(s1, tail)
         IN  relink(s2, i)

\* free_cell with Free cells taken through the arm of Number and Symbol
free_cell_unguarded(st, i) ==
    LET v == st.cells[i].val IN
    IF v.tag \in {"Number", "Symbol", "Free"} THEN relink(st, i)
    ELSE LET s1 == free_cell(st, v.n)
             tail == s1.cells[i].tail
             s2 == free_cell(s1, tail)
         IN  relink(s2, i)

\* CellStorage::free_cell
free_cell(st, i) ==
    LET v == st.cells[i].val IN
    IF v.tag \in {"Number", "Symbol"} THEN relink(st, i)
    ELSE IF v.tag = "Cons"
    THEN LET s1 == free_cell(st, v.n)
             tail == s1.cells[i].tail
             s2 == free_cell(s1, tail)
         IN  relink(s2, i)
    ELSE st

val_of(st, i) == st.cells[i].val

tail_of(st, i) == st.cells[i].tail

set_tail(st, i, tail) == [st EXCEPT !.cells[i].tail = tail]

\* macro cdr!: the tail of a Cons cell, nil for anything else
cdr(i, st) == IF val_of(st, i).tag = "Cons" THEN tail_of(st, i) ELSE NIL_INDEX

is_cons(i, st) == val_of(st, i).tag = "Cons"

is_unary(e, st) ==
    /\ is_cons(cdr(e, st), st)
    /\ cdr(cdr(e, st), st) = NIL_INDEX

\* is_binary without the test that the operand list ends after two operands
is_binary_open(e, st) ==
    /\ is_cons(cdr(e, st), st)
    /\ is_cons(cdr(cdr(e, st), st), st)

is_binary(e, st) ==
    /\ is_cons(cdr(e, st), st)
    /\ is_cons(cdr(cdr(e, st), st), st)
    /\ cdr(cdr(cdr(e, st), st), st) = NIL_INDEX

is_atom(e, st) ==
    IF val_of(st, e).tag \in {"Number", "Symbol"} THEN TRUE
    ELSE e = NIL_INDEX

(***************************************************************************)
(* i32 arithmetic.  The checker's integers are themselves 32 bits wide, so *)
(* every operator below is written to stay inside the i32 range.           *)
(***************************************************************************)
I32_MAX == 2147483647

I32_MIN == (-2147483647) - 1

\* a + b leaves i32
add_overflows(a, b) ==
    \/ b > 0 /\ a > I32_MAX - b
    \/ b < 0 /\ a < I32_MIN - b

\* a + b modulo 2^32, two's complement
wrapping_add(a, b) ==
    IF b > 0 /\ a > I32_MAX - b
    THEN (a - I32_MAX - 1) + (b - I32_MAX - 1)
    ELSE IF b < 0 /\ a < I32_MIN - b
    THEN (a + I32_MAX + 1) + (b + I32_MAX + 1)
    ELSE a + b

\* a - b leaves i32
sub_overflows(a, b) ==
    \/ b < 0 /\ a > I32_MAX + b
    \/ b > 0 /\ a < I32_MIN + b

\* a - b modulo 2^32, two's complement
wrapping_sub(a, b) ==
    IF b < 0 /\ a > I32_MAX + b
    THEN (a - I32_MAX - 1) - (b + I32_MAX + 1)
    ELSE IF b > 0 /\ a < I32_MIN + b
    THEN (a + I32_MAX + 1) - (b - I32_MAX - 1)
    ELSE a - b

\* byte k (0 = lowest) of the two's complement representation of a
byte_of(a, k) ==
    LET p == IF k = 0 THEN 1 ELSE IF k = 1 THEN 256
             ELSE IF k = 2 THEN 65536 ELSE 16777216
    IN  (a \div p) % 256

\* a * b modulo 2^32, two's complement, by long multiplication on bytes
wrapping_mul(a, b) ==
    LET a0 == byte_of(a, 0)  a1 == byte_of(a, 1)
        a2 == byte_of(a, 2)  a3 == byte_of(a, 3)
        b0 == byte_of(b, 0)  b1 == byte_of(b, 1)
        b2 == byte_of(b, 2)  b3 == byte_of(b, 3)
        s0 == a0 * b0
        s1 == a0 * b1 + a1 * b0 + (s0 \div 256)
        s2 == a0 * b2 + a1 * b1 + a2 * b0 + (s1 \div 256)
        s3 == a0 * b3 + a1 * b2 + a2 * b1 + a3 * b0 + (s2 \div 256)
        c0 == s0 % 256  c1 == s1 % 256  c2 == s2 % 256  c3 == s3 % 256
        hi == IF c3 >= 128 THEN c3 - 256 ELSE c3
    IN  hi * 16777216 + c2 * 65536 + c1 * 256 + c0

\* a / b of Rust for b # 0 and not (a = MIN and b = -1): rounds toward zero
trunc_div(a, b) ==
    LET pos(x, y) ==   \* y > 0
            LET q == x \div y IN
            IF x < 0 /\ x % y # 0 THEN q + 1 ELSE q
    IN  IF b > 0 THEN pos(a, b)
        ELSE IF b = I32_MIN THEN (IF a = I32_MIN THEN 1 ELSE 0)
        ELSE 0 - pos(a, 0 - b)

\* a % b of Rust: the remainder of the truncating division
trunc_rem(a, b) == a - b * trunc_div(a, b)

\* a * b leaves i32
mul_overflows(a, b) ==
    IF a = 0 \/ b = 0 THEN FALSE
    ELSE IF a = -1 THEN b = I32_MIN
    ELSE IF b = -1 THEN a = I32_MIN
    ELSE trunc_div(wrapping_mul(a, b), a) # b

(***************************************************************************)
(* Symbol table.  Names are sequences of one-character strings; symbol     *)
(* indices count from 0 as in the Vec.                                     *)
(***************************************************************************)
\* Iterator::position: the first index holding name, or -1 for None
position(syms, name) ==
    IF \E i \in 1 .. Len(syms) : syms[i] = name
    THEN (CHOOSE i \in 1 .. Len(syms) :
             /\ syms[i] = name
             /\ \A j \in 1 .. i - 1 : syms[j] # name) - 1
    ELSE -1

\* add_sym without the scan for the name: every call pushes
add_sym_push(syms, name) == [symbols |-> Append(syms, name), idx |-> Len(syms)]

\* Env::add_sym: the table afterwards and the index returned
add_sym(syms, name) ==
    IF position(syms, name) >= 0
    THEN [symbols |-> syms, idx |-> position(syms, name)]
    ELSE [symbols |-> Append(syms, name), idx |-> Len(syms)]

\* the names DefaultNS::new interns, in order
OperatorNames ==
    << <<"a", "d", "d">>, <<"s", "u", "b">>, <<"m", "u", "l">>,
       <<"d", "i", "v">>, <<"m", "o", "d">>, <<"c", "o", "n", "s">>,
       <<"h", "d">>, <<"t", "l">>, <<"'">> >>

RECURSIVE intern_all(_, _)
\* the table after interning names[1..] into syms, left to right
intern_all(syms, names) ==
    IF names = <<>> THEN syms
    ELSE intern_all(add_sym(syms, Head(names)).symbols, Tail(names))

\* DefaultNS::new on the table t: the index each operator name got
DefaultNS(t) ==
    [add |-> position(t, OperatorNames[1]),
     sub |-> position(t, OperatorNames[2]),
     mul |-> position(t, OperatorNames[3]),
     div |-> position(t, OperatorNames[4]),
     modu |-> position(t, OperatorNames[5]),
     cons |-> position(t, OperatorNames[6]),
     hd |-> position(t, OperatorNames[7]),
     tl |-> position(t, OperatorNames[8]),
     quote |-> position(t, OperatorNames[9])]

\* the operator table main builds on an empty Env
ns == DefaultNS(intern_all(<<>>, OperatorNames))

(***************************************************************************)
(* Lexer.  The cursor pos counts consumed bytes, so the next byte is       *)
(* input[pos + 1].  A byte is a one-character string for ASCII and its two *)
(* hexadecimal digits above 7F; peek_ch and next_ch read a byte as the     *)
(* char of the same code (u8 as char), which is named like the byte.       *)
(***************************************************************************)
Digits == {"0", "1", "2", "3", "4", "5", "6", "7", "8", "9"}

Letters == {"a", "b", "c", "d", "e", "f", "g", "h", "i", "j", "k", "l", "m",
            "n", "o", "p", "q", "r", "s", "t", "u", "v", "w", "x", "y", "z"}

\* the chars above 7F the model uses: U+00C3 and U+00E9 are letters, U+0083
\* is a control character and U+00A9 the copyright sign
HighLetters == {"C3", "E9"}

\* char::is_alphanumeric on the bytes the model uses
Alphanumeric == Digits \cup Letters \cup HighLetters

\* char::is_whitespace on the bytes the model uses
Whitespace == {" ", "\n"}

DigitVal == [d \in Digits |->
               CHOOSE n \in 0 .. 9 :
                  d = <<"0", "1", "2", "3", "4", "5", "6", "7", "8", "9">>[n + 1]]

eol(input, pos) == pos >= Len(input)

RECURSIVE consume_while(_, _, _)
\* TokenStream::consume_while with the test "is in class"
consume_while(input, pos, class) ==
    IF ~eol(input, pos) /\ input[pos + 1] \in class
    THEN LET r == consume_while(input, pos + 1, class) IN
         [res |-> <<input[pos + 1]>> \o r.res, pos |-> r.pos]
    ELSE [res |-> <<>>, pos |-> pos]

NoToken == [type |-> "None", text |-> <<>>]

Tok(type, text) == [type |-> type, text |-> text]

\* a token that is a maximal run r of characters of one class
run_token(type, r) ==
    [tok |-> Tok(type, r.res), pos |-> r.pos, panic |-> "none"]

\* next_token after consume_whitespace, the cursor being at pos
token_at(input, pos) ==
    IF eol(input, pos) THEN [tok |-> NoToken, pos |-> pos, panic |-> "none"]
    ELSE IF input[pos + 1] = "(" THEN
       [tok |-> Tok("LeftParen", <<>>), pos |-> pos + 1, panic |-> "none"]
    ELSE IF input[pos + 1] = ")" THEN
       [tok |-> Tok("RightParen", <<>>), pos |-> pos + 1, panic |-> "none"]
    ELSE IF input[pos + 1] = "." THEN
       [tok |-> Tok("Dot", <<>>), pos |-> pos + 1, panic |-> "none"]
    ELSE IF input[pos + 1] = "'" THEN
       [tok |-> Tok("Symbol", <<"'">>), pos |-> pos + 1, panic |-> "none"]
    ELSE IF input[pos + 1] \in Digits
    THEN run_token("Number", consume_while(input, pos, Digits))
    ELSE IF input[pos + 1] \in Alphanumeric
    THEN run_token("Symbol", consume_while(input, pos, Alphanumeric))
    ELSE [tok |-> NoToken, pos |-> pos, panic |-> "Syntax error"]

\* TokenStream::next_token: the token (NoToken for None), the cursor
\* afterwards and the panic message of the syntax error, if any
next_token(input, pos0) ==
    token_at(input, consume_while(input, pos0, Whitespace).pos)

\* TokenStream::peek_token: next_token with the cursor restored
peek_token(input, pos) == [next_token(input, pos) EXCEPT !.pos = pos]

RECURSIVE parse_i32(_)
\* str::parse::<i32> on a run of digits: ok is FALSE for Err (out of range)
parse_i32(s) ==
    IF s = <<>> THEN [ok |-> TRUE, n |-> 0]
    ELSE LET front == parse_i32(SubSeq(s, 1, Len(s) - 1))
             d == DigitVal[s[Len(s)]]
         IN  IF ~front.ok \/ front.n > (I32_MAX - d) \div 10
             THEN [ok |-> FALSE, n |-> 0]
             ELSE [ok |-> TRUE, n |-> front.n * 10 + d]

(***************************************************************************)
(* Parser.  A parser state p holds the storage st, the symbol table, the   *)
(* token cursor pos and the Parser fields nesting, exp and exps.  A result *)
(* is [p, ok, idx]: ok is FALSE for None (and after a panic).              *)
(***************************************************************************)
Parser_new(st, syms) ==
    [st |-> st, symbols |-> syms, pos |-> 0, nesting |-> 0,
     exp |-> NIL_INDEX, exps |-> NIL_INDEX]

None(p) == [p |-> p, ok |-> FALSE, idx |-> NIL_INDEX]

Some(p, i) == [p |-> p, ok |-> TRUE, idx |-> i]

Panicked(p, msg) == None([p EXCEPT !.st.panic = msg])

RECURSIVE parse_sexp(_, _)
RECURSIVE parse_sexps(_, _)

\* parse_sexps: the Cons cell a of the list is linked to its tail r2.idx
sexps_pair(r2, a) ==
    IF a.st.panic # "none" THEN None([r2.p EXCEPT !.st = a.st])
    ELSE Some([r2.p EXCEPT !.st = set_tail(a.st, a.idx, r2.idx),
                           !.exps = a.idx],
              a.idx)

\* parse_sexps: the match on the result r2 of parsing the tail
sexps_cdr(car_idx, r2) ==
    IF ~r2.ok THEN None(r2.p)
    ELSE sexps_pair(r2, alloc_cell(r2.p.st, Cons(car_idx)))

\* parse_sexps: after the head r1, a Dot (peeked as pk2) is consumed and
\* one expression is the tail; otherwise the rest of the list is
sexps_dot(input, r1, pk2) ==
    IF pk2.panic # "none" THEN Panicked(r1.p, pk2.panic)
    ELSE sexps_cdr(r1.idx,
                   IF pk2.tok.type = "Dot"
                   THEN parse_sexp([r1.p EXCEPT
                                      !.pos = next_token(input, r1.p.pos).pos],
                                   input)
                   ELSE parse_sexps(r1.p, input))

\* parse_sexps: the match on the result r1 of parsing the head
sexps_car(input, r1) ==
    IF ~r1.ok THEN None(r1.p)
    ELSE sexps_dot(input, r1, peek_token(input, r1.p.pos))

\* parse_sexps: the match on the peeked token pk
sexps_peeked(p, input, pk) ==
    IF pk.panic # "none" THEN Panicked(p, pk.panic)
    ELSE IF pk.tok.type = "RightParen" THEN Some(p, NIL_INDEX)
    ELSE sexps_car(input, parse_sexp(p, input))

\* Parser::parse_sexps
parse_sexps(p, input) ==
    IF p.st.panic # "none" THEN None(p)
    ELSE sexps_peeked(p, input, peek_token(input, p.pos))

\* parse_sexp: self.exp = storage.alloc_cell(..); Some(self.exp)
sexp_atom(p1, a) ==
    IF a.st.panic # "none" THEN None([p1 EXCEPT !.st = a.st])
    ELSE Some([p1 EXCEPT !.st = a.st, !.exp = a.idx], a.idx)

\* parse_sexp, arm Number: nval is the result of str_num.parse::<i32>()
sexp_number(p1, nval) ==
    IF ~nval.ok THEN Panicked(p1, "called Result::unwrap on an Err value")
    ELSE sexp_atom(p1, alloc_cell(p1.st, Number(nval.n)))

\* parse_sexp, arm Symbol: s is the result of add_sym
sexp_symbol(p1, s) ==
    sexp_atom([p1 EXCEPT !.symbols = s.symbols],
              alloc_cell(p1.st, Symbol(s.idx)))

\* parse_sexp, arm LeftParen: the match on the token t2 after the list
sexp_close(p2, exps, t2) ==
    IF t2.panic # "none" THEN Panicked(p2, t2.panic)
    ELSE IF t2.tok.type = "RightParen"
    THEN Some([p2 EXCEPT !.pos = t2.pos, !.exp = exps], exps)
    ELSE None([p2 EXCEPT !.pos = t2.pos])

\* parse_sexp, arm LeftParen: the match on the result r of parse_sexps
sexp_list(input, r) ==
    IF ~r.ok THEN None(r.p)
    ELSE sexp_close([r.p EXCEPT !.nesting = r.p.nesting - 1], r.idx,
                    next_token(input, r.p.pos))

\* parse_sexp: the match on the token t
sexp_token(p, input, t) ==
    IF t.panic # "none" THEN Panicked(p, t.panic)
    ELSE IF t.tok.type = "Number"
    THEN sexp_number([p EXCEPT !.pos = t.pos], parse_i32(t.tok.text))
    ELSE IF t.tok.type = "Symbol"
    THEN sexp_symbol([p EXCEPT !.pos = t.pos], add_sym(p.symbols, t.tok.text))
    ELSE IF t.tok.type = "None" THEN None([p EXCEPT !.pos = t.pos])
    ELSE IF t.tok.type # "LeftParen"
    THEN Panicked([p EXCEPT !.pos = t.pos], "assertion failed: left == right")
    ELSE sexp_list(input,
                   parse_sexps([p EXCEPT !.pos = t.pos,
                                         !.nesting = p.nesting + 1],
                               input))

\* Parser::parse_sexp
parse_sexp(p, input) ==
    IF p.st.panic # "none" THEN None(p)
    ELSE sexp_token(p, input, next_token(input, p.pos))

\* Parser::parse: a fresh TokenStream over the whole buffer
parse(p, input) == parse_sexp([p EXCEPT !.pos = 0], input)

(***************************************************************************)
(* Evaluator.  A result is [st, ok, idx, err, arg]: ok with the index of   *)
(* the value, or the EvalError err with its payload arg; after a panic ok  *)
(* is FALSE, err is "panic" and st.panic holds the message.                *)
(***************************************************************************)
Ok(st, i) == [st |-> st, ok |-> TRUE, idx |-> i, err |-> "none", arg |-> 0]

Err(st, e, a) ==
    [st |-> st, ok |-> FALSE, idx |-> NIL_INDEX, err |-> e, arg |-> a]

Abort(st, msg) == Err([st EXCEPT !.panic = msg], "panic", 0)

\* macro car!: the head of a Cons cell; anything else panics
car(i, st) ==
    IF is_cons(i, st) THEN [idx |-> val_of(st, i).n, panic |-> "none"]
    ELSE [idx |-> NIL_INDEX, panic |-> "Not a cons cell"]

split_binary(e, st) ==
    LET head == car(cdr(e, st), st)
        tail == car(cdr(cdr(e, st), st), st)
    IN  [head |-> head.idx, tail |-> tail.idx,
         panic |-> IF head.panic # "none" THEN head.panic ELSE tail.panic]

\* the i32 expression of eval_arithmetic: the number, or the panic message.
\* oc: the build checks add, sub and mul for overflow (debug profile); a
\* build without the checks wraps.  Division panics in every build.
arith(op, a, b, oc) ==
    IF op = ns.add THEN
       IF add_overflows(a, b) /\ oc
       THEN [n |-> 0, panic |-> "attempt to add with overflow"]
       ELSE [n |-> wrapping_add(a, b), panic |-> "none"]
    ELSE IF op = ns.sub THEN
       IF sub_overflows(a, b) /\ oc
       THEN [n |-> 0, panic |-> "attempt to subtract with overflow"]
       ELSE [n |-> wrapping_sub(a, b), panic |-> "none"]
    ELSE IF op = ns.mul THEN
       IF mul_overflows(a, b) /\ oc
       THEN [n |-> 0, panic |-> "attempt to multiply with overflow"]
       ELSE [n |-> wrapping_mul(a, b), panic |-> "none"]
    ELSE IF op = ns.div THEN
       IF b = 0
       THEN [n |-> 0, panic |-> "attempt to divide by zero"]
       ELSE IF a = I32_MIN /\ b = -1
       THEN [n |-> 0, panic |-> "attempt to divide with overflow"]
       ELSE [n |-> trunc_div(a, b), panic |-> "none"]
    ELSE
       IF b = 0
       THEN [n |-> 0, panic |->
               "attempt to calculate the remainder with a divisor of zero"]
       ELSE IF a = I32_MIN /\ b = -1
       THEN [n |-> 0, panic |->
               "attempt to calculate the remainder with overflow"]
       ELSE [n |-> trunc_rem(a, b), panic |-> "none"]

RECURSIVE eval(_, _, _)

\* eval_cons: the Cons cell a gets the tail
cons_alloc(tail, a) ==
    IF a.st.panic # "none" THEN Abort(tail.st, a.st.panic)
    ELSE Ok(set_tail(a.st, a.idx, tail.idx), a.idx)

\* eval_cons: try! on the right operand's result, then alloc_cell
cons_tail(head, tail) ==
    IF ~tail.ok THEN tail
    ELSE cons_alloc(tail, alloc_cell(tail.st, Cons(head.idx)))

\* eval_cons: try! on the left operand's result, then the right operand
cons_head(sp, oc, head) ==
    IF ~head.ok THEN head
    ELSE cons_tail(head, eval(sp.tail, head.st, oc))

\* eval_cons: the operands sp are evaluated left first
cons_split(st, oc, sp) ==
    IF sp.panic # "none" THEN Abort(st, sp.panic)
    ELSE cons_head(sp, oc, eval(sp.head, st, oc))

eval_cons(e, st, oc) ==
    IF ~is_binary(e, st) THEN Err(st, "NonBinary", 0)
    ELSE cons_split(st, oc, split_binary(e, st))

\* eval_arithmetic: the cell a allocated for the number
arith_alloc(st, a) ==
    IF a.st.panic # "none" THEN Abort(st, a.st.panic)
    ELSE Ok(a.st, a.idx)

\* eval_arithmetic: n is the value of the i32 expression
arith_value(st, n) ==
    IF n.panic # "none" THEN Abort(st, n.panic)
    ELSE arith_alloc(st, alloc_cell(st, Number(n.n)))

\* eval_arithmetic: the match on the values va and vb of the operands
arith_match(op, st, oc, va, vb) ==
    IF va.tag = "Number" /\ vb.tag = "Number"
    THEN arith_value(st, arith(op, va.n, vb.n, oc))
    ELSE Err(st, "NonNumeric", 0)

\* eval_arithmetic: try! on the right operand's result
arith_rhs(op, oc, lhs, rhs) ==
    IF ~rhs.ok THEN rhs
    ELSE arith_match(op, rhs.st, oc,
                     val_of(rhs.st, lhs.idx), val_of(rhs.st, rhs.idx))

\* eval_arithmetic: try! on the left operand's result, then the right operand
arith_lhs(op, sp, oc, lhs) ==
    IF ~lhs.ok THEN lhs
    ELSE arith_rhs(op, oc, lhs, eval(sp.tail, lhs.st, oc))

\* eval_arithmetic with the operands evaluated right first: the match on the
\* values, the left operand having been evaluated last
arith_rtl_lhs(op, oc, rhs, lhs) ==
    IF ~lhs.ok THEN lhs
    ELSE arith_match(op, lhs.st, oc,
                     val_of(lhs.st, lhs.idx), val_of(lhs.st, rhs.idx))

\* eval_arithmetic with the operands evaluated right first: try! on the
\* right operand's result, then the left operand
arith_rtl_rhs(op, sp, oc, rhs) ==
    IF ~rhs.ok THEN rhs
    ELSE arith_rtl_lhs(op, oc, rhs, eval(sp.head, rhs.st, oc))

\* eval_arithmetic with the operands evaluated right first
arith_split_rtl(op, st, oc, sp) ==
    IF sp.panic # "none" THEN Abort(st, sp.panic)
    ELSE arith_rtl_rhs(op, sp, oc, eval(sp.tail, st, oc))

\* eval_arithmetic: the operands sp are evaluated left first
arith_split(op, st, oc, sp) ==
    IF sp.panic # "none" THEN Abort(st, sp.panic)
    ELSE arith_lhs(op, sp, oc, eval(sp.head, st, oc))

eval_arithmetic(op, e, st, oc) ==
    IF ~is_binary(e, st) THEN Err(st, "NonBinary", 0)
    ELSE arith_split(op, st, oc, split_binary(e, st))

\* the quote arm: c is car!(cdr!(exp, cells), cells)
quote_car(st, c) ==
    IF c.panic # "none" THEN Abort(st, c.panic) ELSE Ok(st, c.idx)

\* the quote arm returning the operand list instead of the operand
eval_quote_list(e, st) ==
    IF ~is_unary(e, st) THEN Err(st, "NonUnary", 0)
    ELSE Ok(st, cdr(e, st))

\* eval, the arm of op == ns.quote
eval_quote(e, st) ==
    IF ~is_unary(e, st) THEN Err(st, "NonUnary", 0)
    ELSE quote_car(st, car(cdr(e, st), st))

\* the hd/tl arm after the operand: NotCons carrying the operand's value
\* instead of the expression
hd_tl_value(op, e, res) ==
    IF ~res.ok THEN res
    ELSE IF ~is_cons(res.idx, res.st) THEN Err(res.st, "NotCons", res.idx)
    ELSE IF op = ns.hd THEN Ok(res.st, car(res.idx, res.st).idx)
    ELSE Ok(res.st, cdr(res.idx, res.st))

\* the hd/tl arm: try! on the operand's result res, then the test for a
\* Cons cell and the choice of its head or tail
hd_tl_res(op, e, res) ==
    IF ~res.ok THEN res
    ELSE IF ~is_cons(res.idx, res.st) THEN Err(res.st, "NotCons", e)
    ELSE IF op = ns.hd THEN Ok(res.st, car(res.idx, res.st).idx)
    ELSE Ok(res.st, cdr(res.idx, res.st))

\* the hd/tl arm: c is car!(cdr!(exp, cells), cells), the operand
hd_tl_car(op, e, st, oc, c) ==
    IF c.panic # "none" THEN Abort(st, c.panic)
    ELSE hd_tl_res(op, e, eval(c.idx, st, oc))

\* eval, the arm of op == ns.hd || op == ns.tl
eval_hd_tl(op, e, st, oc) ==
    IF ~is_unary(e, st) THEN Err(st, "NonUnary", 0)
    ELSE hd_tl_car(op, e, st, oc, car(cdr(e, st), st))

\* eval on a Cons cell whose head cell holds hv, with the operand list of an
\* unknown operator tested like that of a binary operator
eval_op_arity(hv, e, st, oc) ==
    IF hv.tag = "Symbol" THEN
       IF hv.n = ns.quote THEN eval_quote(e, st)
       ELSE IF hv.n = ns.hd \/ hv.n = ns.tl THEN eval_hd_tl(hv.n, e, st, oc)
       ELSE IF hv.n = ns.cons THEN eval_cons(e, st, oc)
       ELSE IF hv.n \in {ns.add, ns.sub, ns.mul, ns.div, ns.modu}
       THEN eval_arithmetic(hv.n, e, st, oc)
       ELSE IF ~is_binary(e, st) THEN Err(st, "NonBinary", 0)
       ELSE Err(st, "UnknownOperator", hv.n)
    ELSE Err(st, "IllegalOperator", 0)

\* eval on a Cons cell whose head cell holds hv
eval_op(hv, e, st, oc) ==
    IF hv.tag = "Symbol" THEN
       IF hv.n = ns.quote THEN eval_quote(e, st)
       ELSE IF hv.n = ns.hd \/ hv.n = ns.tl THEN eval_hd_tl(hv.n, e, st, oc)
       ELSE IF hv.n = ns.cons THEN eval_cons(e, st, oc)
       ELSE IF hv.n \in {ns.add, ns.sub, ns.mul, ns.div, ns.modu}
       THEN eval_arithmetic(hv.n, e, st, oc)
       ELSE Err(st, "UnknownOperator", hv.n)
    ELSE Err(st, "IllegalOperator", 0)

eval(e, st, oc) ==
    IF st.panic # "none" THEN Err(st, "panic", 0)
    ELSE IF is_atom(e, st) THEN Ok(st, e)
    ELSE IF st.cells[e].val.tag = "Cons"
    THEN eval_op(val_of(st, st.cells[e].val.n), e, st, oc)
    ELSE Abort(st, "Invalid expression")

(***************************************************************************)
(* Printer: the text print_exp writes, as a sequence of bytes.              *)
(***************************************************************************)
\* the bytes a char is written as: itself up to 7F, two bytes above
utf8(c) ==
    IF c = "C3" THEN <<"C3", "83">>
    ELSE IF c = "E9" THEN <<"C3", "A9">>
    ELSE <<c>>

RECURSIVE fmt_str(_)
\* print!("{}", s) for a String: the bytes of its chars, in order
fmt_str(str) ==
    IF str = <<>> THEN <<>> ELSE utf8(Head(str)) \o fmt_str(Tail(str))

RECURSIVE neg_digits(_)
\* the decimal digits of -m for m <= 0
neg_digits(m) ==
    LET d == <<"0", "1", "2", "3", "4", "5", "6", "7", "8", "9">>
                [1 - trunc_rem(m, 10)]
    IN  IF m > -10 THEN <<d>>
        ELSE neg_digits(trunc_div(m, 10)) \o <<d>>

\* print!("{}", n) for an i32
fmt_i32(n) == IF n < 0 THEN <<"-">> \o neg_digits(n) ELSE neg_digits(0 - n)

RECURSIVE print_exp(_, _, _)
RECURSIVE print_rest(_, _, _)

\* the while loop and the dotted tail of print_list, from cell e on
print_rest(e, st, syms) ==
    LET cell == st.cells[e] IN
    IF cell.val.tag = "Cons"
    THEN <<" ">> \o print_exp(cell.val.n, st, syms)
               \o print_rest(cell.tail, st, syms)
    ELSE IF e # NIL_INDEX
    THEN <<" ", ".", " ">> \o print_exp(e, st, syms)
    ELSE <<>>

print_list(i, st, syms) ==
    <<"(">> \o print_exp(car(i, st).idx, st, syms)
            \o print_rest(cdr(i, st), st, syms)
            \o <<")">>

print_exp(i, st, syms) ==
    IF i = NIL_INDEX THEN <<"(", ")">>
    ELSE LET v == val_of(st, i) IN
         IF v.tag = "Symbol" THEN fmt_str(syms[v.n + 1])
         ELSE IF v.tag = "Number" THEN fmt_i32(v.n)
         ELSE IF v.tag = "Cons" THEN print_list(i, st, syms)
         ELSE <<>>

(***************************************************************************)
(* Input texts: the lines a user may type.                                 *)
(***************************************************************************)
RECURSIVE join(_)
\* the items separated by single spaces
join(items) ==
    IF Len(items) = 0 THEN <<>>
    ELSE IF Len(items) = 1 THEN items[1]
    ELSE items[1] \o <<" ">> \o join(Tail(items))

list(items) == <<"(">> \o join(items) \o <<")">>

un(op, a) == list(<<op, a>>)

bin(op, a, b) == list(<<op, a, b>>)

t_add == OperatorNames[1]
t_sub == OperatorNames[2]
t_mul == OperatorNames[3]
t_div == OperatorNames[4]
t_mod == OperatorNames[5]
t_cons == OperatorNames[6]
t_hd == OperatorNames[7]
t_tl == OperatorNames[8]
t_quote == OperatorNames[9]
t_foo == <<"f", "o", "o">>
t_bar == <<"b", "a", "r">>
t_nil == <<"(", ")">>
t_0 == <<"0">>
t_1 == <<"1">>
t_2 == <<"2">>
t_7 == <<"7">>
t_max == <<"2", "1", "4", "7", "4", "8", "3", "6", "4", "7">>

RECURSIVE chain(_, _, _)
\* (op a (op a ( ... (op a a)))) with d operators
chain(op, a, d) ==
    IF d <= 1 THEN bin(op, a, a) ELSE bin(op, a, chain(op, a, d - 1))

RECURSIVE ones(_)
\* k times the element 1, as list items
ones(k) == IF k = 0 THEN <<>> ELSE <<t_1>> \o ones(k - 1)

\* full binary trees of add over 1, of depth 1 to 4
D1 == bin(t_add, t_1, t_1)
D2 == bin(t_add, D1, D1)
D3 == bin(t_add, D2, D2)
D4 == bin(t_add, D3, D3)

\* small well-formed expressions, one operator over atoms
FlatLines ==
    {un(op, a) : op \in {t_quote, t_hd, t_tl}, a \in {t_1, t_foo, t_nil}}
    \cup {bin(op, a, b) : op \in {t_cons, t_add, t_div},
                          a \in {t_1, t_foo}, b \in {t_0, t_foo}}

\* nested expressions
NestedLines ==
    { bin(t_add, bin(t_add, t_1, t_2), t_7),
      un(t_hd, bin(t_cons, t_1, t_2)),
      un(t_tl, bin(t_cons, t_1, t_2)),
      un(t_hd, un(t_quote, list(<<t_1, t_2>>))),
      un(t_tl, un(t_quote, list(<<t_1, t_2>>))),
      un(t_hd, un(t_hd, un(t_quote, list(<<list(<<t_1, t_2>>), t_7>>)))),
      bin(t_cons, bin(t_cons, t_1, t_2), t_7),
      bin(t_cons, t_1, un(t_quote, list(<<t_2, t_7>>))),
      un(t_quote, bin(t_div, t_1, t_0)),
      un(t_quote, bin(t_foo, t_1, t_2)),
      un(t_quote, list(<<t_1, t_2, t_7>>)),
      un(t_quote, un(t_quote, t_1)),
      un(t_hd, bin(t_add, t_1, t_2)),
      un(t_tl, bin(t_mul, t_1, t_2)),
      un(t_hd, bin(t_add, bin(t_add, bin(t_add, t_1, t_1), t_1), t_1)),
      bin(t_add, bin(t_add, t_1, t_2), t_foo),
      bin(t_sub, t_foo, bin(t_add, t_1, t_2)),
      bin(t_cons, bin(t_add, t_1, t_2), un(t_hd, t_1)),
      bin(t_mod, t_7, bin(t_sub, t_1, t_1)),
      bin(t_add, t_max, t_1),
      bin(t_mul, t_max, t_2),
      bin(t_sub, bin(t_sub, t_0, t_max), t_2),
      bin(t_div, bin(t_sub, bin(t_sub, t_0, t_max), t_1), bin(t_sub, t_0, t_1)),
      bin(t_mod, bin(t_sub, bin(t_sub, t_0, t_max), t_1), bin(t_sub, t_0, t_1)) }

\* operator expressions with a wrong number of operands
ArityLines ==
    { list(<<t_add>>), list(<<t_add, t_1>>), list(<<t_add, t_1, t_2, t_7>>),
      list(<<t_add, t_1, t_2, <<".">>, t_7>>),
      list(<<t_add, <<".">>, t_1>>),
      list(<<t_cons, t_1>>),
      list(<<t_cons, bin(t_add, t_1, t_2), bin(t_div, t_1, t_0), t_7>>),
      list(<<t_div, bin(t_add, t_1, t_2)>>),
      list(<<t_quote>>), list(<<t_quote, t_1, t_2>>),
      list(<<t_quote, bin(t_add, t_1, t_2), <<".">>, t_1>>),
      list(<<t_hd>>), list(<<t_hd, t_1, t_2>>),
      list(<<t_hd, t_1, <<".">>, t_2>>),
      list(<<t_hd, bin(t_add, t_1, t_2), bin(t_div, t_1, t_0)>>),
      list(<<t_tl, <<".">>, t_1>>),
      bin(t_cons, bin(t_add, t_1, t_2), list(<<t_hd>>)),
      un(t_hd, list(<<t_mul, t_1>>)) }

\* expressions whose head is no operator
HeadLines ==
    { bin(t_foo, t_1, t_2), list(<<t_foo>>), list(<<t_1, t_2>>),
      list(<<t_foo, t_bar, t_foo>>),
      list(<<t_nil, t_1>>), list(<<bin(t_add, t_1, t_2), t_1>>),
      list(<<t_1, <<".">>, t_2>>),
      bin(t_add, list(<<t_1, t_2>>), bin(t_add, t_1, t_2)) }

\* symbols with a byte above 7F
t_e9 == <<"E9">>

HighLines == { t_e9, un(t_quote, list(<<t_foo, t_e9>>)) }

\* malformed and incomplete text, and the lines that may complete it
SyntaxLines ==
    { <<")">>, <<".">>, <<"(">>, <<"(", ")", ")">>,
      <<"(", "1", " ", ".", " ", ")">>,
      <<"(", "1", " ", ".", " ", "2", " ", "7", ")">>,
      <<"(", "1", " ", ".", " ", "2">>,
      <<"(", ".", " ", "1", ")">>,
      <<"(", "a", "d", "d", " ", "1">>,
      <<"(", "h", "d", " ", "(", "c", "o", "n", "s", " ", "1">>,
      <<"(", "a", "d", "d", " ", "1", " ", "-", "1", ")">>,
      <<"2", "1", "4", "7", "4", "8", "3", "6", "4", "8">>,
      <<"1", "a">>, <<>> }

\* lines typed after an incomplete one
MoreLines ==
    { <<" ", "2", ")">>, <<" ", "2", ")", ")">>, <<")">>, <<"7">>, <<>> }

\* expressions that need most of the arena:
\* D4 needs 76 cells to parse; the second parses into 61 cells and then
\* allocates 12; the third parses into 51 and allocates 10
BigLines ==
    { D4,
      bin(t_add, D3, bin(t_add, D2, t_1)),
      bin(t_add, D3, bin(t_add, D1, t_1)) }

\* the lines of the expressions after the first
LaterLines ==
    { t_1,
      bin(t_cons, t_1, t_0),
      bin(t_div, t_1, t_0),
      un(t_hd, bin(t_cons, t_1, t_2)),
      bin(t_add, bin(t_add, t_1, t_2), t_7),
      un(t_quote, list(<<t_1, t_2, t_7>>)),
      un(t_hd, un(t_quote, list(<<t_1, t_2>>))),
      un(t_hd, bin(t_add, t_1, t_2)),
      list(<<t_add, t_1, t_2, <<".">>, t_7>>),
      list(<<t_hd, bin(t_add, t_1, t_2), bin(t_div, t_1, t_0)>>),
      bin(t_foo, t_1, t_2),
      <<"(", "a", "d", "d", " ", "1">>,
      bin(t_add, D3, bin(t_add, D1, t_1)) }

\* the lines of the expressions after the second
LastLines ==
    { un(t_hd, bin(t_cons, t_1, t_2)),
      un(t_quote, list(<<t_1, t_2, t_7>>)) }

\* lines typed after two lines that left the expression incomplete
FurtherLines == { <<")">>, <<"7">> }

SessionLines ==
    {t_1, t_foo, t_nil} \cup FlatLines \cup NestedLines \cup ArityLines
    \cup HeadLines \cup SyntaxLines \cup BigLines \cup HighLines

\* operands for arithmetic: literals, and expressions for negative numbers
OperandTexts ==
    { t_0, t_1, t_2, t_7, t_max,
      bin(t_sub, t_0, t_1), bin(t_sub, t_0, t_7), bin(t_sub, t_0, t_max),
      bin(t_sub, bin(t_sub, t_0, t_max), t_1) }

ArithLines ==
    {bin(op, a, b) : op \in {t_add, t_sub, t_mul, t_div, t_mod},
                     a \in OperandTexts, b \in OperandTexts}

(***************************************************************************)
(* The session: main's loop around s_exp, eval and free_cell.              *)
(***************************************************************************)
\* top-level expressions per session
MaxCycles == 2

\* lines read for one top-level expression
MaxLines == 2

Storage == [cells |-> cells, free_index |-> free_index, panic |-> "none"]

RECURSIVE chain_len(_, _, _)
\* the number of cells on the chain from i along the tail links, at most fuel
chain_len(st, i, fuel) ==
    IF i = NIL_INDEX \/ fuel = 0 THEN 0
    ELSE 1 + chain_len(st, st.cells[i].tail, fuel - 1)

\* the number of cells on the free list
free_count(st) == chain_len(st, st.free_index, Capacity)

NoErr == [tag |-> "none", arg |-> 0]

\* what is remembered of the cycles that ended: whether the last expression
\* used quote, how many lines it took, whether its evaluation succeeded, and
\* whether every cycle so far took one line and ended in an EvalError, and
\* whether the last expression was a unary quote of a non-nil operand
NoHist == [quoted |-> FALSE, nlines |-> 0, ok |-> FALSE, errs_only |-> TRUE,
           top_quote |-> FALSE]

quoted(text) == \E i \in 1 .. Len(text) : text[i] = "'"

Init ==
    /\ cells = init_storage.cells
    /\ free_index = init_storage.free_index
    /\ symbols = intern_all(<<>>, OperatorNames)
    /\ buf = <<>>
    /\ nesting = 0
    /\ idx = NIL_INDEX
    /\ exp = NIL_INDEX
    /\ err = NoErr
    /\ pc = "read"
    /\ panic = "none"
    /\ overflow_checks \in BOOLEAN
    /\ cycles = 0
    /\ lines = 0
    /\ before = free_count(init_storage)
    /\ hist = NoHist

\* s_exp: the match on the result r of parser.parse(buf, storage), the
\* buffer holding input
s_exp_parsed(input, r) ==
    /\ buf' = input
    /\ cells' = r.p.st.cells
    /\ free_index' = r.p.st.free_index
    /\ symbols' = r.p.symbols
    /\ nesting' = r.p.nesting
    /\ panic' = r.p.st.panic
    /\ pc' = IF r.p.st.panic # "none" THEN "aborted"
             ELSE IF r.ok THEN "eval" ELSE "read"
    /\ idx' = IF r.ok THEN r.idx ELSE idx
    /\ exp' = NIL_INDEX
    /\ err' = NoErr
    /\ lines' = lines + 1
    /\ before' = IF lines = 0 THEN free_count(Storage) ELSE before

\* one turn of the loop of s_exp: a line is appended to the buffer and the
\* whole buffer is parsed by the Parser of this s_exp call
ReadLine(Lines, maxc) ==
    /\ pc = "read"
    /\ cycles < maxc
    /\ lines < MaxLines
    /\ \E line \in IF lines > 1 THEN FurtherLines
                    ELSE IF lines > 0 THEN MoreLines
                    ELSE IF cycles > 1 THEN LastLines
                    ELSE IF cycles > 0 THEN LaterLines ELSE Lines :
         s_exp_parsed(buf \o line \o <<"\n">>,
                      parse([Parser_new(Storage, symbols)
                               EXCEPT !.nesting = nesting],
                            buf \o line \o <<"\n">>))
    /\ UNCHANGED <<overflow_checks, cycles, hist>>

\* end of input: s_exp returns 9000 and print_exp indexes the arena with it
Eof ==
    /\ pc = "read"
    /\ pc' = "aborted"
    /\ panic' = "index out of bounds"
    /\ UNCHANGED <<cells, free_index, symbols, buf, nesting, idx, exp, err,
                   overflow_checks, cycles, lines, before, hist>>

\* main: the match on the result r of eval
main_evaluated(r) ==
    /\ cells' = r.st.cells
    /\ free_index' = r.st.free_index
    /\ panic' = r.st.panic
    /\ pc' = IF r.st.panic # "none" THEN "aborted"
             ELSE IF r.ok THEN "free_result" ELSE "free_input"
    /\ exp' = IF r.ok THEN r.idx ELSE NIL_INDEX
    /\ err' = IF r.ok \/ r.st.panic # "none" THEN NoErr
              ELSE [tag |-> r.err, arg |-> r.arg]

\* main: eval(idx, ...) and the arm taken on its result
Eval ==
    /\ pc = "eval"
    /\ main_evaluated(eval(idx, Storage, overflow_checks))
    /\ UNCHANGED <<symbols, buf, nesting, idx, overflow_checks, cycles, lines,
                   before, hist>>

\* the storage becomes st
stored(st) ==
    /\ cells' = st.cells
    /\ free_index' = st.free_index

\* main, Ok arm: storage.free_cell(exp)
FreeResult ==
    /\ pc = "free_result"
    /\ stored(free_cell(Storage, exp))
    /\ pc' = "free_input"
    /\ UNCHANGED <<symbols, buf, nesting, idx, exp, err, panic,
                   overflow_checks, cycles, lines, before, hist>>

\* main: storage.free_cell(idx); buf.clear(); the next s_exp call makes a
\* new Parser
FreeInput ==
    /\ pc = "free_input"
    /\ stored(free_cell(Storage, idx))
    /\ buf' = <<>>
    /\ nesting' = 0
    /\ lines' = 0
    /\ cycles' = cycles + 1
    /\ pc' = "read"
    /\ idx' = NIL_INDEX
    /\ exp' = NIL_INDEX
    /\ err' = NoErr
    /\ hist' = [quoted |-> quoted(buf), nlines |-> lines,
                ok |-> err.tag = "none",
                errs_only |-> hist.errs_only /\ err.tag # "none" /\ lines = 1,
                top_quote |-> /\ err.tag = "none"
                              /\ is_cons(idx, Storage)
                              /\ val_of(Storage, Storage.cells[idx].val.n)
                                   = Symbol(ns.quote)
                              /\ is_unary(idx, Storage)
                              /\ car(cdr(idx, Storage), Storage).idx
                                   # NIL_INDEX]
    /\ UNCHANGED <<symbols, panic, overflow_checks, before>>

Next ==
    \/ ReadLine(SessionLines, MaxCycles)
    \/ Eof
    \/ Eval
    \/ FreeResult
    \/ FreeInput

Spec == Init /\ [][Next]_vars

NextArith ==
    \/ ReadLine(ArithLines, 1)
    \/ Eof
    \/ Eval
    \/ FreeResult
    \/ FreeInput

\* one arithmetic expression over boundary operands
SpecArith == Init /\ [][NextArith]_vars

(***************************************************************************)
(* Shapes of expressions, read off the arena independently of eval.        *)
(***************************************************************************)
RECURSIVE operands(_, _, _)
\* the heads of the Pair cells on the tail chain from i
operands(st, i, fuel) ==
    IF fuel = 0 \/ st.cells[i].val.tag # "Cons" THEN <<>>
    ELSE <<st.cells[i].val.n>> \o operands(st, st.cells[i].tail, fuel - 1)

RECURSIVE terminator(_, _, _)
\* the first index on the tail chain from i that is not a Pair cell
terminator(st, i, fuel) ==
    IF fuel = 0 \/ st.cells[i].val.tag # "Cons" THEN i
    ELSE terminator(st, st.cells[i].tail, fuel - 1)

\* the operands of the Pair expression e
args(st, e) == operands(st, st.cells[e].tail, Capacity)

\* e is an operator followed by exactly k operands and nil
proper(st, e, k) ==
    /\ Len(args(st, e)) = k
    /\ terminator(st, st.cells[e].tail, Capacity) = NIL_INDEX

\* the symbol index at the head of the Pair expression e, or -1
head_op(st, e) ==
    IF st.cells[e].val.tag = "Cons"
       /\ st.cells[st.cells[e].val.n].val.tag = "Symbol"
    THEN st.cells[st.cells[e].val.n].val.n
    ELSE -1

RECURSIVE reach(_, _, _)
\* the cells of the tree under i: i and all it reaches by head and tail
reach(st, i, fuel) ==
    IF i = NIL_INDEX \/ fuel = 0 THEN {}
    ELSE IF st.cells[i].val.tag = "Cons"
    THEN {i} \cup reach(st, st.cells[i].val.n, fuel - 1)
             \cup reach(st, st.cells[i].tail, fuel - 1)
    ELSE {i}

\* the sub-expressions of the input tree
subexprs == reach(Storage, idx, Capacity)

RECURSIVE chain_set(_, _, _)
\* the cells on the chain from i along the tail links
chain_set(st, i, fuel) ==
    IF i = NIL_INDEX \/ fuel = 0 THEN {}
    ELSE {i} \cup chain_set(st, st.cells[i].tail, fuel - 1)

free_set(st) == chain_set(st, st.free_index, Capacity)

live_pairs(st) == {j \in 1 .. Capacity - 1 : st.cells[j].val.tag = "Cons"}

\* the roots main holds: the input tree from s_exp on, the result from eval
\* until it is freed
roots ==
    (IF pc \in {"eval", "free_result", "free_input"} THEN {idx} ELSE {})
    \cup (IF pc = "free_result" THEN {exp} ELSE {})

\* the number of edges that point at cell i: head fields, tail fields, and
\* main as one owner of the cells it holds as roots
owners(st, i) ==
    Cardinality({j \in live_pairs(st) : st.cells[j].val.n = i})
    + Cardinality({j \in live_pairs(st) : st.cells[j].tail = i})
    + (IF i \in roots THEN 1 ELSE 0)

UnaryOps == {ns.quote, ns.hd, ns.tl}

BinaryOps == {ns.cons, ns.add, ns.sub, ns.mul, ns.div, ns.modu}

(***************************************************************************)
(* Claims                                                                  *)
(***************************************************************************)

\* C1: after a top-level expression without quote was read in one line,
\* evaluated successfully, and its result and then its input tree were freed,
\* the free list holds as many cells as before the expression was parsed.
C1_LeakFree ==
    (pc = "read" /\ lines = 0 /\ cycles > 0
       /\ hist.ok /\ hist.nlines = 1 /\ ~hist.quoted)
    => free_count(Storage) = before

\* C2: while the first expression, read in one line and free of quote, is
\* held by main (parsed, evaluated, result freed), every cell of
\* [1, Capacity) is on the free list or is pointed at by exactly one edge: a
\* head or tail field of a live Pair, or a root held by main.
C2_SingleOwner ==
    (pc \in {"eval", "free_result", "free_input"}
       /\ cycles = 0 /\ lines = 1 /\ ~quoted(buf))
    => \A i \in 1 .. Capacity - 1 :
          i \in free_set(Storage) \/ owners(Storage, i) = 1

\* C3: running out of cells never ends the process: an allocation on an
\* empty free list, in the parser or in the evaluator, is no panic.
C3_ExhaustionRecoverable == panic # "Exhausted cell storage!"

\* the operand results l and r are Numbers, the right one 0
zero_divisor(l, r) ==
    /\ l.ok /\ r.ok
    /\ val_of(r.st, l.idx).tag = "Number"
    /\ val_of(r.st, r.idx) = Number(0)

\* eval returned an error to its caller
is_error(res) == ~res.ok /\ res.st.panic = "none"

\* the operands of e evaluated left to right: the result of the right one
right_of(st, e, l) == eval(args(st, e)[2], l.st, overflow_checks)

\* C4: a binary div or mod expression whose operands evaluate to Numbers,
\* the right one to 0, makes eval return an error, not abort the process.
C4_DivByZeroIsError ==
    pc = "eval" =>
      \A e \in subexprs :
        (/\ head_op(Storage, e) \in {ns.div, ns.modu}
         /\ proper(Storage, e, 2)
         /\ zero_divisor(eval(args(Storage, e)[1], Storage, overflow_checks),
                         right_of(Storage, e,
                                  eval(args(Storage, e)[1], Storage,
                                       overflow_checks))))
        => is_error(eval(e, Storage, overflow_checks))

\* res is the error tag and the storage is still st
fails_untouched(res, tag, st) == ~res.ok /\ res.err = tag /\ res.st = st

\* C5: an operator expression with the wrong number of operands (or a
\* dotted operand list) fails NonUnary for quote/hd/tl and NonBinary for
\* cons/add/sub/mul/div/mod, and leaves every cell and the free-list head as
\* they were.
C5_ArityBeforeOperands ==
    pc = "eval" =>
      \A e \in subexprs :
        /\ (head_op(Storage, e) \in UnaryOps /\ ~proper(Storage, e, 1))
           => fails_untouched(eval(e, Storage, overflow_checks),
                              "NonUnary", Storage)
        /\ (head_op(Storage, e) \in BinaryOps /\ ~proper(Storage, e, 2))
           => fails_untouched(eval(e, Storage, overflow_checks),
                              "NonBinary", Storage)

\* C5 witness: eval has answered NonBinary to an expression whose operand
\* list is dotted
C5_Witness ==
    /\ pc = "free_input"
    /\ err.tag = "NonBinary"
    /\ head_op(Storage, idx) \in BinaryOps
    /\ terminator(Storage, Storage.cells[idx].tail, Capacity) # NIL_INDEX

\* C6: no sequence of tokens makes the parser abort the process: an
\* unexpected ')' or '.', or a missing tail after '.', never fails the
\* parser's assertion.
C6_SyntaxErrorIsNoParse == panic # "assertion failed: left == right"

\* what evaluation e of the tree parsed as r gives: whether both succeeded,
\* and what the result prints as
run_outcome(r, e) ==
    [ok |-> r.ok /\ e.ok,
     out |-> IF r.ok /\ e.ok THEN print_exp(e.idx, e.st, r.p.symbols)
             ELSE <<>>]

\* parse result r followed by eval
run_parsed(r) == run_outcome(r, eval(r.idx, r.p.st, overflow_checks))

\* the text alone on a fresh arena
fresh_run(text) == run_parsed(parse(Parser_new(init_storage, symbols), text))

\* the session agrees with the outcome f of the fresh run
agrees(f) ==
    f.ok => /\ panic = "none"
            /\ pc = "free_result" => print_exp(exp, Storage, symbols) = f.out

\* C7: after cycles that each took one line and ended in a typed EvalError,
\* an expression that parses and evaluates on a fresh arena does not abort
\* the process and evaluates to the same result.
C7_ErrorsAreLocal ==
    (cycles >= 1 /\ hist.errs_only /\ lines = 1) => agrees(fresh_run(buf))

\* res is the value i and the storage is still st
gives_untouched(res, i, st) == res.ok /\ res.idx = i /\ res.st = st

\* C8: a unary quote expression evaluates to the index held as the head of
\* its second Pair, and the arena is untouched, whatever the operand is.
C8_QuoteReturnsOperand ==
    pc = "eval" =>
      \A e \in subexprs :
        (head_op(Storage, e) = ns.quote /\ proper(Storage, e, 1))
        => gives_untouched(eval(e, Storage, overflow_checks),
                           args(Storage, e)[1], Storage)

\* C8 witness: main holds the result of quoting a list that would not
\* evaluate: the operand, a Pair of the input tree whose head is no Symbol
C8_Witness ==
    /\ pc = "free_result"
    /\ head_op(Storage, idx) = ns.quote
    /\ exp = args(Storage, idx)[1]
    /\ is_cons(exp, Storage)
    /\ head_op(Storage, exp) = -1

\* what hd or tl must give, the operand having evaluated to o
hd_tl_expected(op, e, o, res) ==
    o.ok => /\ res.st = o.st
            /\ IF o.st.cells[o.idx].val.tag # "Cons"
               THEN ~res.ok /\ res.err = "NotCons" /\ res.arg = e
               ELSE /\ res.ok
                    /\ res.idx = IF op = ns.hd
                                 THEN o.st.cells[o.idx].val.n
                                 ELSE o.st.cells[o.idx].tail

\* C9: for a unary hd or tl expression e whose operand evaluates to r:
\* if r is no Pair, eval fails NotCons(e); otherwise hd gives the head index
\* of r and tl its tail index; the step changes no cell beyond what the
\* evaluation of the operand did.
C9_HdTl ==
    pc = "eval" =>
      \A e \in subexprs :
        (head_op(Storage, e) \in {ns.hd, ns.tl} /\ proper(Storage, e, 1))
        => hd_tl_expected(head_op(Storage, e), e,
                          eval(args(Storage, e)[1], Storage, overflow_checks),
                          eval(e, Storage, overflow_checks))

\* C9 witness: main holds the result of tl applied to a pair made by cons
C9_Witness ==
    /\ pc = "free_result"
    /\ head_op(Storage, idx) = ns.tl
    /\ head_op(Storage, args(Storage, idx)[1]) = ns.cons
    /\ val_of(Storage, exp) = Number(2)

\* the number wrapping 32-bit arithmetic gives; none is asked of div and mod
wraps_to(op, a, b, n) ==
    /\ op = ns.add => n = wrapping_add(a, b)
    /\ op = ns.sub => n = wrapping_sub(a, b)
    /\ op = ns.mul => n = wrapping_mul(a, b)

\* res is a cell that was free in st and holds the wrapped result
fresh_number(op, a, b, st, res) ==
    /\ res.st.panic = "none"
    /\ res.ok
    /\ st.cells[res.idx].val.tag = "Free"
    /\ res.st.cells[res.idx].val.tag = "Number"
    /\ wraps_to(op, a, b, res.st.cells[res.idx].val.n)

\* the operands evaluated to the cells va and vb in storage st
arith_expected(op, va, vb, st, res) ==
    (/\ va.tag = "Number" /\ vb.tag = "Number"
     /\ op \in {ns.div, ns.modu} => vb.n # 0)
    => fresh_number(op, va.n, vb.n, st, res)

\* the operands of e evaluated to l and then r
operands_expected(op, l, r, res) ==
    (l.ok /\ r.ok)
    => arith_expected(op, val_of(r.st, l.idx), val_of(r.st, r.idx), r.st, res)

\* the left operand of e evaluated to l
left_expected(e, l) ==
    operands_expected(head_op(Storage, e), l, right_of(Storage, e, l),
                      eval(e, Storage, overflow_checks))

\* C10: a binary arithmetic expression whose operands evaluate to Numbers
\* a and b (b # 0 for div and mod) evaluates, without aborting, to a cell
\* that was free and now holds the result in wrapping 32-bit arithmetic.
C10_WrappingArithmetic ==
    (/\ pc = "eval"
     /\ head_op(Storage, idx) \in {ns.add, ns.sub, ns.mul, ns.div, ns.modu}
     /\ proper(Storage, idx, 2))
    => left_expected(idx, eval(args(Storage, idx)[1], Storage,
                               overflow_checks))

\* the names of the nine operators
operator_names == {OperatorNames[k] : k \in 1 .. Len(OperatorNames)}

\* res is the error tag with payload arg and the storage is still st
fails_with(res, tag, arg, st) ==
    ~res.ok /\ res.err = tag /\ res.arg = arg /\ res.st = st

\* what dispatch must answer for the Pair e whose head cell holds hv
dispatch_expected(e, hv, res) ==
    /\ hv.tag # "Symbol" => fails_with(res, "IllegalOperator", 0, Storage)
    /\ (hv.tag = "Symbol" /\ symbols[hv.n + 1] \notin operator_names)
       => fails_with(res, "UnknownOperator", hv.n, Storage)

\* C11: a Pair expression whose head cell is no Symbol fails
\* IllegalOperator, and one whose head is a Symbol that names none of the
\* nine operators fails UnknownOperator of that symbol, whatever the operand
\* list is; every cell and the free-list head stay as they were.
C11_Dispatch ==
    pc = "eval" =>
      \A e \in subexprs :
        is_cons(e, Storage)
        => dispatch_expected(e, val_of(Storage, Storage.cells[e].val.n),
                             eval(e, Storage, overflow_checks))

\* C11 witness: eval has answered UnknownOperator to an unknown symbol
\* followed by no operand
C11_Witness ==
    /\ pc = "free_input"
    /\ err.tag = "UnknownOperator"
    /\ symbols[err.arg + 1] \notin operator_names
    /\ is_cons(idx, Storage)
    /\ args(Storage, idx) = <<>>

\* no name is held twice by the table t
distinct_names(t) ==
    \A i \in 1 .. Len(t) : \A j \in 1 .. Len(t) : t[i] = t[j] => i = j

\* t is the beginning of the table u
is_prefix(t, u) == Len(t) <= Len(u) /\ SubSeq(u, 1, Len(t)) = t

\* names to intern: operators, names met before, names never met
ProbeNames == {t_add, t_quote, t_foo, t_bar, <<"z">>}

\* r is what interning name n into the table t must give
interned(t, n, r) ==
    /\ (\E i \in 1 .. Len(t) : t[i] = n)
       => r.symbols = t /\ t[r.idx + 1] = n
    /\ (\A i \in 1 .. Len(t) : t[i] # n)
       => r.symbols = Append(t, n) /\ r.idx = Len(t)
    /\ add_sym(r.symbols, n) = r

\* the table t is duplicate-free and interning into it is stable
intern_stable(t) ==
    /\ distinct_names(t)
    /\ \A n \in ProbeNames : interned(t, n, add_sym(t, n))

\* C12: in every step of the session the symbol table holds pairwise distinct
\* names before and after, the old table is the beginning of the new one (no
\* index of an interned name changes), and interning a name gives the index
\* it already has, or the previous length of the table for a new name, and
\* the same index when repeated.
C12_Interning ==
    [][/\ intern_stable(symbols)
       /\ intern_stable(symbols')
       /\ is_prefix(symbols, symbols')]_vars

\* C12 witness: after an expression that interned two new names, a later
\* expression naming the first of them is parsed to the index it got then
C12_Witness ==
    /\ cycles = 1
    /\ pc = "eval"
    /\ Len(symbols) = Len(OperatorNames) + 2
    /\ head_op(Storage, idx) = Len(OperatorNames)
    /\ symbols[Len(OperatorNames) + 1] = t_foo

RECURSIVE tree(_, _, _)
\* the tree under cell i as a value: shape, numbers and symbol indices
tree(st, i, fuel) ==
    IF i = NIL_INDEX \/ fuel = 0 THEN <<"nil">>
    ELSE IF st.cells[i].val.tag = "Cons"
    THEN <<"Pair", tree(st, st.cells[i].val.n, fuel - 1),
                   tree(st, st.cells[i].tail, fuel - 1)>>
    ELSE <<st.cells[i].val.tag, st.cells[i].val.n>>

\* the parse result r is a tree equal to t
parses_to(r, t) ==
    /\ r.p.st.panic = "none"
    /\ r.ok
    /\ tree(r.p.st, r.idx, Capacity) = t

\* C13: the text print_exp writes for a parsed expression parses, on a fresh
\* arena and with the same symbol table, to a tree of the same shape with
\* the same numbers and symbol indices.
C13_PrintParseRoundTrip ==
    pc = "eval" =>
      parses_to(parse(Parser_new(init_storage, symbols),
                      print_exp(idx, Storage, symbols)),
                tree(Storage, idx, Capacity))

RECURSIVE live_under(_, _, _)
\* the live cells of the tree under i: children that are Free or nil, and
\* what lies behind them, are left out
live_under(st, i, fuel) ==
    IF i = NIL_INDEX \/ fuel = 0 \/ st.cells[i].val.tag = "Free" THEN {}
    ELSE IF st.cells[i].val.tag = "Cons"
    THEN {i} \cup live_under(st, st.cells[i].val.n, fuel - 1)
             \cup live_under(st, st.cells[i].tail, fuel - 1)
    ELSE {i}

\* every cell on the free list of st is on it once
linked_once(st) == free_count(st) = Cardinality(free_set(st))

\* free_cell took st to s2 by releasing exactly the cells of gone
released(st, s2, gone) ==
    /\ free_set(s2) = free_set(st) \cup gone
    /\ linked_once(s2)
    /\ \A j \in gone : s2.cells[j].val.tag = "Free"
    /\ \A j \in (0 .. Capacity - 1) \ gone : s2.cells[j] = st.cells[j]

\* what free_cell(st, i) must have done, s2 being the storage afterwards
free_guarded(st, i, s2) ==
    IF i = NIL_INDEX \/ st.cells[i].val.tag = "Free"
    THEN s2 = st
    ELSE released(st, s2, live_under(st, i, Capacity))

\* C14: in every state of the session, free_cell on nil or on a cell that
\* is already Free changes nothing; and each call main makes, on the result
\* and then on the input tree, releases exactly the live cells under its
\* argument, skipping children that are already Free: afterwards every cell
\* of the free list is on it once and no other cell has changed.
C14_FreeGuarded ==
    /\ \A i \in 0 .. Capacity - 1 :
          (i = NIL_INDEX \/ cells[i].val.tag = "Free")
          => free_guarded(Storage, i, free_cell(Storage, i))
    /\ pc = "free_result"
       => free_guarded(Storage, exp, free_cell(Storage, exp))
    /\ pc = "free_input"
       => free_guarded(Storage, idx, free_cell(Storage, idx))

\* C14 witness: main has freed the result and is about to free the input
\* tree, a Pair of which still points at a cell of the freed result
C14_Witness ==
    /\ pc = "free_input"
    /\ err.tag = "none"
    /\ \E j \in reach(Storage, idx, Capacity) :
          /\ is_cons(j, Storage)
          /\ Storage.cells[j].val.n # NIL_INDEX
          /\ Storage.cells[Storage.cells[j].val.n].val.tag = "Free"

\* the free list of st is corrupted: it runs in a cycle, so that some cell is
\* linked on it more than once
corrupted(st) == ~linked_once(st)

\* the free list of st ends at nil, holds each of its cells once, holds only
\* Free cells and holds every Free cell of [1, Capacity)
well_formed(st) ==
    /\ linked_once(st)
    /\ free_count(st) < Capacity
    /\ free_set(st) = {j \in 1 .. Capacity - 1 : st.cells[j].val.tag = "Free"}

\* main has freed the result and the input of a top-level unary quote
\* expression with a non-nil operand
quote_freed == pc = "read" /\ lines = 0 /\ cycles > 0 /\ hist.top_quote

\* C15, as claimed: after main freed the result and then the input of a
\* top-level unary quote expression with a non-nil operand, the free list is
\* corrupted: some cell is linked on it more than once.
C15_QuoteDoubleFree == quote_freed => corrupted(Storage)

\* C15, as amended: after main freed the result and then the input of a
\* top-level unary quote expression with a non-nil operand, the free list is
\* not corrupted: the second call skipped the cells the first one freed, and
\* the free list ends at nil and holds exactly the Free cells, each once.
C15_QuoteFreedOnce == quote_freed => well_formed(Storage)

\* C15 witness: the first expression was such a quote expression, read in
\* one line, and all its cells are back on the free list
C15_Witness ==
    /\ quote_freed
    /\ cycles = 1
    /\ hist.nlines = 1
    /\ free_count(Storage) = Capacity - 1

\* st and s2 hold the same cells except for cell i
same_but(st, s2, i) ==
    \A j \in (0 .. Capacity - 1) \ {i} : s2.cells[j] = st.cells[j]

\* res is a cell allocated in st, after both operands
allocated_last(st, res) ==
    /\ res.ok
    /\ st.cells[res.idx].val.tag = "Free"
    /\ res.st.cells[res.idx].val.tag # "Free"
    /\ same_but(st, res.st, res.idx)

\* what the operator must do once both operands evaluated, to l and then to
\* r: cons allocates its Pair, arithmetic reports NonNumeric or allocates
\* its Number, all in the storage the right operand left
both_expected(op, l, r, res) ==
    IF op # ns.cons /\ (val_of(r.st, l.idx).tag # "Number"
                          \/ val_of(r.st, r.idx).tag # "Number")
    THEN fails_with(res, "NonNumeric", 0, r.st)
    ELSE res.st.panic = "none" => allocated_last(r.st, res)

\* what a binary operator must do, the left operand having evaluated to l
\* and the right one, in the storage l left, to r
binary_expected(op, l, r, res) ==
    IF ~l.ok THEN res = l
    ELSE IF ~r.ok THEN res = r
    ELSE both_expected(op, l, r, res)

\* the binary expression e, whose left operand evaluates to l
left_first(e, l) ==
    binary_expected(head_op(Storage, e), l, right_of(Storage, e, l),
                    eval(e, Storage, overflow_checks))

\* C16: in every binary cons or arithmetic expression the right operand is
\* evaluated in the storage the left operand's evaluation left; a failure of
\* the left operand is the result, with no allocation of the right operand;
\* a failure of the right operand is the result otherwise; NonNumeric is
\* reported, and the operator's own cell allocated, only in the storage
\* left by both evaluations.
C16_LeftBeforeRight ==
    pc = "eval" =>
      \A e \in subexprs :
        (head_op(Storage, e) \in BinaryOps /\ proper(Storage, e, 2))
        => left_first(e, eval(args(Storage, e)[1], Storage, overflow_checks))

\* C16 witness: a binary expression failed with the error of its left
\* operand, an illegal operator, while its right operand is an expression
\* that allocates
C16_Witness ==
    /\ pc = "free_input"
    /\ err.tag = "IllegalOperator"
    /\ head_op(Storage, idx) \in BinaryOps
    /\ proper(Storage, idx, 2)
    /\ head_op(Storage, args(Storage, idx)[2]) = ns.add

\* values to allocate
ProbeValues == {Number(7), Symbol(0), Cons(1)}

\* a is what alloc_cell(st, v) must give on a free list that is not empty
takes_head(st, v, a) ==
    /\ a.st.panic = "none"
    /\ a.idx = st.free_index
    /\ a.idx \in 1 .. Capacity - 1
    /\ st.cells[a.idx].val.tag = "Free"
    /\ a.st.cells[a.idx] = [val |-> v, tail |-> NIL_INDEX]
    /\ a.st.free_index = st.cells[a.idx].tail
    /\ same_but(st, a.st, a.idx)

\* C17: in every state of the session with a free list that is not empty,
\* alloc_cell hands out the head of the free list: an index of
\* [1, Capacity) whose cell is Free (never nil, never a live cell), which
\* afterwards holds the value with tail nil; the new head is the old tail
\* link of that cell and no other cell changes.
C17_AllocTakesHead ==
    free_index # NIL_INDEX
    => \A v \in ProbeValues : takes_head(Storage, v, alloc_cell(Storage, v))

\* C17 witness: the second expression has been parsed into cells that the
\* first one had used and freed, and the free list no longer runs in index
\* order
C17_Witness ==
    /\ cycles = 1
    /\ pc = "eval"
    /\ is_cons(idx, Storage)
    /\ free_index # NIL_INDEX
    /\ Storage.cells[free_index].tail # free_index + 1
    /\ Storage.cells[free_index].tail # NIL_INDEX

\* C18: whenever parse returned no result and s_exp is about to read another
\* line, the free list holds as many cells as before the first line of the
\* expression was parsed.
C18_FailedParseLeavesNothing ==
    (pc = "read" /\ lines > 0) => free_count(Storage) = before

\* C19: in every state of the session the chain from free_index along the
\* tail links ends at nil, visits each of its cells once, visits only Free
\* cells and visits every Free cell of [1, Capacity); cell 0 is as
\* Cell::empty() made it.
C19_FreeListWellFormed ==
    /\ well_formed(Storage)
    /\ cells[NIL_INDEX] = Cell_empty

\* C19 witness: two expressions have been read, evaluated and freed, the
\* last one ended in an error, and cells have leaked
C19_Witness ==
    /\ pc = "read"
    /\ lines = 0
    /\ cycles = 2
    /\ ~hist.ok
    /\ free_count(Storage) < Capacity - 1

\* parentheses left over when the stretches a and b of a text are joined:
\* c closing ones without an opening one before them, o opening ones not
\* closed
joined(a, b) ==
    [c |-> a.c + (IF b.c > a.o THEN b.c - a.o ELSE 0),
     o |-> b.o + (IF a.o > b.c THEN a.o - b.c ELSE 0)]

RECURSIVE parens(_, _, _)
\* the parentheses left over in text[lo .. hi]
parens(text, lo, hi) ==
    IF lo > hi THEN [c |-> 0, o |-> 0]
    ELSE IF lo = hi
    THEN [c |-> IF text[lo] = ")" THEN 1 ELSE 0,
          o |-> IF text[lo] = "(" THEN 1 ELSE 0]
    ELSE joined(parens(text, lo, (lo + hi) \div 2),
                parens(text, (lo + hi) \div 2 + 1, hi))

\* the number of '(' of text that no later ')' closes
unclosed(text) == parens(text, 1, Len(text)).o

\* C20: after every call of parse that did not abort, successful or not, on
\* the first line or on a buffer grown by further lines, the Parser's nesting
\* is the number of '(' of the buffer that are not yet closed.
C20_NestingTracksParens ==
    (lines > 0 /\ pc \in {"read", "eval"}) => nesting = unclosed(buf)

====
